---------------------------- MODULE Spec2Model ----------------------------
(***************************************************************************)
(* Cart subsystem of the talipapaup backend: the carts and products        *)
(* tables of the relational store and the actix handlers that read and     *)
(* write them.  Every handler is a sequence of store calls (one per        *)
(* .await); each store call is one atomic step, and the handlers of        *)
(* different requests interleave between their store calls.                *)
(***************************************************************************)
EXTENDS Integers, Sequences, FiniteSets, TLC

(* ------------------------------ bounds --------------------------------- *)
NumReq == 2          \* requests handled in one behaviour
NumUsers == 1        \* distinct user_id values
NumProducts == 2     \* distinct product ids of the catalogue
MaxQty == 2          \* largest quantity a request or an initial row carries
MaxClock == 1        \* latest reading of the wall clock
MaxInitRows == 2     \* rows of the carts table when the behaviour starts

Req == 1..NumReq
Users == 1..NumUsers
ProductIds == 1..NumProducts
QtyInputs == 0..MaxQty

(* ------------------------- HTTP status codes --------------------------- *)
StatusNone == 0
StatusOk == 200
StatusCreated == 201
StatusBadRequest == 400
StatusNotFound == 404
StatusConflict == 409
StatusInternalServerError == 500
StatusPanic == 599   \* the handler panicked: the connection closes, no response

(* ----------------------------- i32 ------------------------------------- *)
I32Max == 2147483647
I32Min == 0 - I32Max - 1

\* a + b leaves the range of i32
AddOverflows(a, b) ==
    \/ b > 0 /\ a > I32Max - b
    \/ b < 0 /\ a < I32Min - b

\* a + b in two's complement (what a release build stores)
WrappingAdd(a, b) ==
    IF b > 0 /\ a > I32Max - b THEN (a - I32Max - 1) + (b - I32Max - 1)
    ELSE IF b < 0 /\ a < I32Min - b THEN (a + I32Max + 1) + (b + I32Max + 1)
    ELSE a + b

(* ----------------------------- tables ---------------------------------- *)
VARIABLES
    products,       \* products table: set of rows [id, product_name, price]
    carts,          \* carts table: set of rows (no unique key but id)
    nextId,         \* supply of fresh Uuid::new_v4() values
    clock,          \* last reading of the wall clock
    pc,             \* per request: the store call its handler is waiting on
    req,            \* per request: handler and arguments
    now,            \* per request: the handler's local `now`
    existing_cart,  \* per request: the row its lookup returned
    db_err,         \* per request: its last store call returned a DbErr
    resp,           \* per request: HTTP status of the response
    data            \* per request: the `data` of a success response

vars == <<products, carts, nextId, clock, pc, req, now, existing_cart, db_err, resp, data>>

NoRow == [id |-> 0, user_id |-> 0, product_id |-> 0, total_qty |-> 0,
          created_at |-> 0, updated_at |-> 0]

NoReq == [op |-> "none", user_id |-> 0, product_id |-> 0, total_qty |-> 0]

\* cents; product 1 costs 9.99
PriceOf(p) == 999 * p

\* names are strings of characters: product 1 is "a", product 2 "aa"
NameOf(p) == [i \in 1..p |-> "a"]

ProductRow(p) == [id |-> p, product_name |-> NameOf(p), price |-> PriceOf(p)]

ProductExists(p) == \E row \in products : row.id = p

RowsOf(u, p) == {c \in carts : c.user_id = u /\ c.product_id = p}

RowsOfUser(u) == {c \in carts : c.user_id = u}

(* ------------------------- store call results -------------------------- *)
\* Result<Option<Model>, DbErr>
Some(row) == [tag |-> "Some", val |-> row]
None == [tag |-> "None", val |-> NoRow]
DbErr == [tag |-> "Err", val |-> NoRow]

\* .one(db) with a filter: any one matching row (the query has no ORDER BY),
\* None when nothing matches, or a storage error
One(matching) ==
    (IF matching = {} THEN {None} ELSE {Some(row) : row \in matching}) \cup {DbErr}

find_product_by_id(p) ==
    (IF ProductExists(p) THEN {"Some"} ELSE {"None"}) \cup {"Err"}

\* 0 stands for Ok(()), otherwise the status of the error response
validate_product_exists(p) ==
    {IF r = "None" THEN StatusConflict
     ELSE IF r = "Some" THEN 0
     ELSE StatusInternalServerError : r \in find_product_by_id(p)}

\* a lookup that filters on user_id alone
find_any_cart_item_of_user(u, p) == One(RowsOfUser(u))

\* services/carts.rs lines 13-17
find_existing_cart_item(u, p) == One(RowsOf(u, p))

local_datetime == clock..MaxClock

\* a merge that overwrites the stored quantity
MergedQtyOverwrite(current_qty, additional_qty) == additional_qty

\* services/carts.rs line 29: current_qty + additional_qty
MergedQty(current_qty, additional_qty) == WrappingAdd(current_qty, additional_qty)

\* an UPDATE that also sets created_at
UpdateByIdTouchCreated(id, qty, t) ==
    {IF c.id = id THEN [c EXCEPT !.total_qty = qty, !.updated_at = t, !.created_at = t]
     ELSE c : c \in carts}

\* an UPDATE filtered by the user of the row instead of its id
UpdateByUserOfId(id, qty, t) ==
    {IF \E x \in carts : x.id = id /\ x.user_id = c.user_id
     THEN [c EXCEPT !.total_qty = qty, !.updated_at = t] ELSE c : c \in carts}

\* UPDATE carts SET total_qty, updated_at WHERE id: the table afterwards
UpdateById(id, qty, t) ==
    {IF c.id = id THEN [c EXCEPT !.total_qty = qty, !.updated_at = t] ELSE c : c \in carts}

RowById(table, id) == CHOOSE c \in table : c.id = id

\* a delete that removes nothing
DeleteNothing(id) == carts

\* DELETE FROM carts WHERE id
DeleteById(id) == {c \in carts : c.id # id}

\* an insert that leaves created_at to the column default
NewCartRowDefaultCreated(id, u, p, qty, t) ==
    [id |-> id, user_id |-> u, product_id |-> p, total_qty |-> qty,
     created_at |-> 0, updated_at |-> t]

NewCartRow(id, u, p, qty, t) ==
    [id |-> id, user_id |-> u, product_id |-> p, total_qty |-> qty,
     created_at |-> t, updated_at |-> t]

(* ----------------------------- responses ------------------------------- *)
Finish(r, status, rows) ==
    /\ pc' = [pc EXCEPT ![r] = "done"]
    /\ resp' = [resp EXCEPT ![r] = status]
    /\ data' = [data EXCEPT ![r] = rows]

Goto(r, label) ==
    /\ pc' = [pc EXCEPT ![r] = label]
    /\ UNCHANGED <<resp, data>>

\* the Result of r's store call: Err(DbErr) or not
Returned(r, failed) == db_err' = [db_err EXCEPT ![r] = failed]

(* ------------------------------ Init ----------------------------------- *)
Pairs == Users \X ProductIds

InitRow(pr, q) ==
    NewCartRow((pr[1] - 1) * NumProducts + pr[2], pr[1], pr[2], q, 0)

\* carts tables sequential add_to_cart calls leave behind: one row per pair
InitCarts ==
    UNION {{{InitRow(pr, q[pr]) : pr \in P} : q \in [P -> 1..MaxQty]} :
           P \in {S \in SUBSET Pairs : Cardinality(S) <= MaxInitRows}}

Init ==
    /\ products \in {{ProductRow(p) : p \in S} : S \in SUBSET ProductIds}
    /\ carts \in InitCarts
    /\ nextId = NumUsers * NumProducts + 1
    /\ clock = 0
    /\ pc = [r \in Req |-> "idle"]
    /\ req = [r \in Req |-> NoReq]
    /\ now = [r \in Req |-> 0]
    /\ existing_cart = [r \in Req |-> NoRow]
    /\ db_err = [r \in Req |-> FALSE]
    /\ resp = [r \in Req |-> StatusNone]
    /\ data = [r \in Req |-> <<>>]

\* request r arrives; requests are numbered in their order of arrival
Arrives(r) == pc[r] = "idle" /\ \A s \in 1..(r - 1) : pc[s] # "idle"

Request(o, u, p, q) == [op |-> o, user_id |-> u, product_id |-> p, total_qty |-> q]

(* ---------------------------- add_to_cart ------------------------------ *)
\* POST /carts/ arrives; line 23 reads the clock
AddStartWith(r, quantities) ==
    /\ Arrives(r)
    /\ \E u \in Users, p \in ProductIds, q \in quantities, t \in local_datetime :
        /\ req' = [req EXCEPT ![r] = Request("add_to_cart", u, p, q)]
        /\ now' = [now EXCEPT ![r] = t]
        /\ clock' = t
    /\ Goto(r, "add_validate")
    /\ UNCHANGED <<products, carts, nextId, existing_cart, db_err>>

AddStart(r) == AddStartWith(r, QtyInputs)

\* add_to_cart without the quantity check of lines 31-35
AddValidateQtyUnchecked(r) ==
    /\ pc[r] = "add_validate"
    /\ \E v \in validate_product_exists(req[r].product_id) :
        /\ Returned(r, v = StatusInternalServerError)
        /\ IF v # 0 THEN Finish(r, v, <<>>) ELSE Goto(r, "add_find")
    /\ UNCHANGED <<products, carts, nextId, clock, req, now, existing_cart>>

\* lines 26-35: product lookup, then the quantity check
AddValidate(r) ==
    /\ pc[r] = "add_validate"
    /\ \E v \in validate_product_exists(req[r].product_id) :
        /\ Returned(r, v = StatusInternalServerError)
        /\ IF v # 0 THEN Finish(r, v, <<>>)
           ELSE IF req[r].total_qty <= 0 THEN Finish(r, StatusBadRequest, <<>>)
           ELSE Goto(r, "add_find")
    /\ UNCHANGED <<products, carts, nextId, clock, req, now, existing_cart>>

\* a lookup whose error is taken for "no row"
AddFindErrAsNone(r) ==
    /\ pc[r] = "add_find"
    /\ \E res \in find_existing_cart_item(req[r].user_id, req[r].product_id) :
        /\ Returned(r, res.tag = "Err")
        /\ IF res.tag = "Some"
           THEN Goto(r, "add_update") /\ existing_cart' = [existing_cart EXCEPT ![r] = res.val]
           ELSE Goto(r, "add_insert") /\ UNCHANGED existing_cart
    /\ UNCHANGED <<products, carts, nextId, clock, req, now>>

\* line 38
AddFind(r) ==
    /\ pc[r] = "add_find"
    /\ \E res \in find_existing_cart_item(req[r].user_id, req[r].product_id) :
        /\ Returned(r, res.tag = "Err")
        /\ IF res.tag = "Err"
           THEN Finish(r, StatusInternalServerError, <<>>) /\ UNCHANGED existing_cart
           ELSE IF res.tag = "Some"
           THEN Goto(r, "add_update") /\ existing_cart' = [existing_cart EXCEPT ![r] = res.val]
           ELSE Goto(r, "add_insert") /\ UNCHANGED existing_cart
    /\ UNCHANGED <<products, carts, nextId, clock, req, now>>

\* line 41, services/carts.rs update_cart_quantity
AddUpdate(r) ==
    /\ pc[r] = "add_update"
    /\ LET sum == MergedQty(existing_cart[r].total_qty, req[r].total_qty)
           id == existing_cart[r].id
       IN \E outcome \in {"Ok", "Err"} \cup
                (IF AddOverflows(existing_cart[r].total_qty, req[r].total_qty)
                 THEN {"Panic"} ELSE {}) :
            LET failed == outcome = "Err" \/ ~(\E c \in carts : c.id = id)
            IN /\ Returned(r, outcome # "Panic" /\ failed)
               /\ IF outcome = "Panic"
                  THEN Finish(r, StatusPanic, <<>>) /\ UNCHANGED carts
                  ELSE IF failed
                  THEN Finish(r, StatusInternalServerError, <<>>) /\ UNCHANGED carts
                  ELSE /\ carts' = UpdateById(id, sum, now[r])
                       /\ Finish(r, StatusOk, <<RowById(carts', id)>>)
    /\ UNCHANGED <<products, nextId, clock, req, now, existing_cart>>

\* lines 61-67, services/carts.rs create_new_cart_item
AddInsert(r) ==
    /\ pc[r] = "add_insert"
    /\ \E outcome \in {"Ok", "Err"} :
        /\ Returned(r, outcome = "Err")
        /\ IF outcome = "Err"
           THEN Finish(r, StatusInternalServerError, <<>>) /\ UNCHANGED <<carts, nextId>>
           ELSE LET row == NewCartRow(nextId, req[r].user_id, req[r].product_id,
                                      req[r].total_qty, now[r])
                IN /\ carts' = carts \cup {row}
                   /\ nextId' = nextId + 1
                   /\ Finish(r, StatusCreated, <<row>>)
    /\ UNCHANGED <<products, clock, req, now, existing_cart>>

add_to_cart(r) == AddStart(r) \/ AddValidate(r) \/ AddFind(r) \/ AddUpdate(r) \/ AddInsert(r)

(* ------------------------- get_cart_by_user_id ------------------------- *)
\* a SUM that keeps the greatest quantity of the group
SumQtyGreatest(rows) ==
    CHOOSE q \in {c.total_qty : c \in rows} : \A c \in rows : c.total_qty <= q

\* SUM over an integer column is a bigint and the product with a price a
\* numeric: both are wider than 32 bits, so a wide number w is kept as the
\* pair [hi, lo] with w = hi * Limb + lo and lo in 0..Limb-1
Limb == 65536

RECURSIVE SumHigh(_)
SumHigh(rows) ==
    IF rows = {} THEN 0
    ELSE LET c == CHOOSE x \in rows : TRUE
         IN (c.total_qty \div Limb) + SumHigh(rows \ {c})

RECURSIVE SumLow(_)
SumLow(rows) ==
    IF rows = {} THEN 0
    ELSE LET c == CHOOSE x \in rows : TRUE
         IN (c.total_qty % Limb) + SumLow(rows \ {c})

\* SUM(c.total_qty) over a group of rows, as the bigint it is
SumBig(rows) ==
    [hi |-> SumHigh(rows) + (SumLow(rows) \div Limb), lo |-> SumLow(rows) % Limb]

\* the ::INTEGER cast of line 119 accepts w: it lies in the range of i32
CastFits(w) == w.hi >= I32Min \div Limb /\ w.hi <= I32Max \div Limb

\* SUM(c.total_qty)::INTEGER when the cast accepts the sum
SumQty(rows) == SumBig(rows).hi * Limb + SumBig(rows).lo

\* qty * price, exactly
Times(qty, price) ==
    LET low == (qty % Limb) * price
    IN [hi |-> (qty \div Limb) * price + (low \div Limb), lo |-> low % Limb]

MinCreatedAt(rows) ==
    CHOOSE t \in {c.created_at : c \in rows} : \A c \in rows : t <= c.created_at

MaxUpdatedAt(rows) ==
    CHOOSE t \in {c.updated_at : c \in rows} : \A c \in rows : t >= c.updated_at

\* (array_agg(c.id ORDER BY c.created_at))[1]: rows of equal created_at come
\* in any order
FirstIds(rows) == {c.id : c \in {x \in rows : x.created_at = MinCreatedAt(rows)}}

\* a query that multiplies by the price cut to whole currency units
AggregateGroupWholeUnits(rows, product) ==
    IF ~CastFits(SumBig(rows)) THEN {}
    ELSE {[id |-> i, product_id |-> product.id, total_qty |-> SumQty(rows),
           created_at |-> MinCreatedAt(rows), updated_at |-> MaxUpdatedAt(rows),
           product_name |-> product.product_name, product_price |-> product.price,
           sub_total_price |-> Times(SumQty(rows), (product.price \div 100) * 100)] :
          i \in FirstIds(rows)}

\* the rows the query of lines 115-132 can return for one group; description
\* and img_url are copied from the product row like product_name.  No row
\* when the cast of line 119 rejects the sum: the statement fails as a whole
AggregateGroup(rows, product) ==
    IF ~CastFits(SumBig(rows)) THEN {}
    ELSE {[id |-> i, product_id |-> product.id, total_qty |-> SumQty(rows),
           created_at |-> MinCreatedAt(rows), updated_at |-> MaxUpdatedAt(rows),
           product_name |-> product.product_name, product_price |-> product.price,
           sub_total_price |-> Times(SumQty(rows), product.price)] :
          i \in FirstIds(rows)}

RECURSIVE AggregateFromAllGroups(_, _)
\* a query that keeps the groups whose product row is gone
AggregateFromAllGroups(u, p) ==
    IF p > NumProducts THEN {<<>>}
    ELSE LET rows == RowsOf(u, p)
             rest == AggregateFromAllGroups(u, p + 1)
         IN IF rows = {} THEN rest
            ELSE {<<g>> \o tail : g \in AggregateGroup(rows, ProductRow(p)), tail \in rest}

RECURSIVE AggregateFrom(_, _)
\* the results the statement can return for the groups of product ids >= p,
\* ORDER BY c.product_id; none when the cast fails in one of the groups
AggregateFrom(u, p) ==
    IF p > NumProducts THEN {<<>>}
    ELSE LET joined == {row \in products : row.id = p}
             rows == RowsOf(u, p)
             rest == AggregateFrom(u, p + 1)
         IN IF joined = {} \/ rows = {} THEN rest
            ELSE {<<g>> \o tail : g \in AggregateGroup(rows, CHOOSE row \in joined : TRUE),
                                  tail \in rest}

\* a query with ORDER BY c.product_id DESC
AggregateForUserDescending(u) ==
    {[i \in 1..Len(a) |-> a[Len(a) + 1 - i]] : a \in AggregateFrom(u, 1)}

AggregateForUser(u) == AggregateFrom(u, 1)

\* the view record a row of the query is decoded into, column by column:
\* integer id, product_id and total_qty, timestamps, decimal prices
CartsResponse(row) ==
    [id |-> row.id, product_id |-> row.product_id, total_qty |-> row.total_qty,
     created_at |-> row.created_at, updated_at |-> row.updated_at,
     product_name |-> row.product_name, product_price |-> row.product_price,
     sub_total_price |-> row.sub_total_price]

\* GET /carts/{user_id} arrives
GetStart(r) ==
    /\ Arrives(r)
    /\ \E u \in Users :
        req' = [req EXCEPT ![r] = Request("get_cart_by_user_id", u, 0, 0)]
    /\ Goto(r, "get_probe")
    /\ UNCHANGED <<products, carts, nextId, clock, now, existing_cart, db_err>>

\* a probe that takes "no row" for an empty cart and answers 200
GetProbeNoneOk(r) ==
    /\ pc[r] = "get_probe"
    /\ \E res \in One(RowsOfUser(req[r].user_id)) :
        /\ Returned(r, res.tag = "Err")
        /\ IF res.tag = "Err" THEN Finish(r, StatusInternalServerError, <<>>)
           ELSE IF res.tag = "None" THEN Finish(r, StatusOk, <<>>)
           ELSE Goto(r, "get_aggregate")
        /\ existing_cart' = [existing_cart EXCEPT ![r] = res.val]
    /\ UNCHANGED <<products, carts, nextId, clock, req, now>>

\* lines 106-111: Ok(Some(carts)) binds the row the probe found
GetProbe(r) ==
    /\ pc[r] = "get_probe"
    /\ \E res \in One(RowsOfUser(req[r].user_id)) :
        /\ Returned(r, res.tag = "Err")
        /\ IF res.tag = "Err" THEN Finish(r, StatusInternalServerError, <<>>)
           ELSE IF res.tag = "None" THEN Finish(r, StatusNotFound, <<>>)
           ELSE Goto(r, "get_aggregate")
        /\ existing_cart' = [existing_cart EXCEPT ![r] = res.val]
    /\ UNCHANGED <<products, carts, nextId, clock, req, now>>

\* a get that returns the rows of the query without looking at their number
GetAggregateNoEmptyCheck(r) ==
    /\ pc[r] = "get_aggregate"
    /\ \E outcome \in {[tag |-> "Err", rows |-> <<>>]} \cup
                       {[tag |-> "Ok", rows |-> a] : a \in AggregateForUser(req[r].user_id)} :
        /\ Returned(r, outcome.tag = "Err")
        /\ IF outcome.tag = "Err" THEN Finish(r, StatusInternalServerError, <<>>)
           ELSE Finish(r, StatusOk, [i \in DOMAIN outcome.rows |-> CartsResponse(outcome.rows[i])])
    /\ UNCHANGED <<products, carts, nextId, clock, req, now, existing_cart>>

\* lines 134-160
GetAggregate(r) ==
    /\ pc[r] = "get_aggregate"
    /\ \E outcome \in {[tag |-> "Err", rows |-> <<>>]} \cup
                       {[tag |-> "Ok", rows |-> a] : a \in AggregateForUser(req[r].user_id)} :
        /\ Returned(r, outcome.tag = "Err")
        /\ IF outcome.tag = "Err" THEN Finish(r, StatusInternalServerError, <<>>)
           ELSE IF outcome.rows = <<>> THEN Finish(r, StatusNotFound, <<>>)
           ELSE Finish(r, StatusOk, [i \in DOMAIN outcome.rows |-> CartsResponse(outcome.rows[i])])
    /\ UNCHANGED <<products, carts, nextId, clock, req, now, existing_cart>>

get_cart_by_user_id(r) == GetStart(r) \/ GetProbe(r) \/ GetAggregate(r)

(* -------------------------- update_cart_qty ---------------------------- *)
\* PUT /carts/qty/{user_id}/{product_id}/{qty}/ arrives; lines 209-223 parse
\* qty and reject qty <= 0 before any store call
UpdStart(r) ==
    /\ Arrives(r)
    /\ \E u \in Users, p \in ProductIds, q \in QtyInputs :
        /\ req' = [req EXCEPT ![r] = Request("update_cart_qty", u, p, q)]
        /\ IF q <= 0 THEN Finish(r, StatusBadRequest, <<>>) ELSE Goto(r, "upd_validate")
    /\ UNCHANGED <<products, carts, nextId, clock, now, existing_cart, db_err>>

\* line 236
UpdValidate(r) ==
    /\ pc[r] = "upd_validate"
    /\ \E v \in validate_product_exists(req[r].product_id) :
        /\ Returned(r, v = StatusInternalServerError)
        /\ IF v # 0 THEN Finish(r, v, <<>>) ELSE Goto(r, "upd_find")
    /\ UNCHANGED <<products, carts, nextId, clock, req, now, existing_cart>>

\* lines 242-248: the lookup, then `now` is read and the ActiveModel is built
UpdFind(r) ==
    /\ pc[r] = "upd_find"
    /\ \E res \in find_existing_cart_item(req[r].user_id, req[r].product_id) :
        /\ Returned(r, res.tag = "Err")
        /\ IF res.tag = "Err"
           THEN Finish(r, StatusInternalServerError, <<>>) /\ UNCHANGED <<existing_cart, now, clock>>
           ELSE IF res.tag = "None"
           THEN Finish(r, StatusNotFound, <<>>) /\ UNCHANGED <<existing_cart, now, clock>>
           ELSE /\ Goto(r, "upd_update")
                /\ existing_cart' = [existing_cart EXCEPT ![r] = res.val]
                /\ \E t \in local_datetime :
                       now' = [now EXCEPT ![r] = t] /\ clock' = t
    /\ UNCHANGED <<products, carts, nextId, req>>

\* an update that adds to the stored quantity
OverwrittenQtyAdded(current_qty, qty) == current_qty + qty

\* the quantity update_cart_qty writes (line 247)
OverwrittenQty(current_qty, qty) == qty

\* a write that waits until the row it read is in the table
UpdUpdateAwaitsRow(r) ==
    /\ pc[r] = "upd_update"
    /\ \E c \in carts : c.id = existing_cart[r].id
    /\ LET id == existing_cart[r].id
           qty == OverwrittenQty(existing_cart[r].total_qty, req[r].total_qty)
       IN \E outcome \in {"Ok", "Err"} :
            /\ Returned(r, outcome = "Err")
            /\ IF outcome = "Err"
               THEN Finish(r, StatusInternalServerError, <<>>) /\ UNCHANGED carts
               ELSE /\ carts' = UpdateById(id, qty, now[r])
                    /\ Finish(r, StatusOk, <<RowById(carts', id)>>)
    /\ UNCHANGED <<products, nextId, clock, req, now, existing_cart>>

\* line 250
UpdUpdate(r) ==
    /\ pc[r] = "upd_update"
    /\ LET id == existing_cart[r].id
           qty == OverwrittenQty(existing_cart[r].total_qty, req[r].total_qty)
       IN \E outcome \in {"Ok", "Err"} :
            LET failed == outcome = "Err" \/ ~(\E c \in carts : c.id = id)
            IN /\ Returned(r, failed)
               /\ IF failed
                  THEN Finish(r, StatusInternalServerError, <<>>) /\ UNCHANGED carts
                  ELSE /\ carts' = UpdateById(id, qty, now[r])
                       /\ Finish(r, StatusOk, <<RowById(carts', id)>>)
    /\ UNCHANGED <<products, nextId, clock, req, now, existing_cart>>

update_cart_qty(r) == UpdStart(r) \/ UpdValidate(r) \/ UpdFind(r) \/ UpdUpdate(r)

(* -------------------------- delete_cart_item --------------------------- *)
\* DELETE /carts/{user_id}/{product_id} arrives
DelStart(r) ==
    /\ Arrives(r)
    /\ \E u \in Users, p \in ProductIds :
        req' = [req EXCEPT ![r] = Request("delete_cart_item", u, p, 0)]
    /\ Goto(r, "del_validate")
    /\ UNCHANGED <<products, carts, nextId, clock, now, existing_cart, db_err>>

\* a delete_cart_item that goes to the cart without asking for the product
DelValidateSkipped(r) ==
    /\ pc[r] = "del_validate"
    /\ Returned(r, FALSE)
    /\ Goto(r, "del_find")
    /\ UNCHANGED <<products, carts, nextId, clock, req, now, existing_cart>>

\* line 317
DelValidate(r) ==
    /\ pc[r] = "del_validate"
    /\ \E v \in validate_product_exists(req[r].product_id) :
        /\ Returned(r, v = StatusInternalServerError)
        /\ IF v # 0 THEN Finish(r, v, <<>>) ELSE Goto(r, "del_find")
    /\ UNCHANGED <<products, carts, nextId, clock, req, now, existing_cart>>

\* lines 322-326
DelFind(r) ==
    /\ pc[r] = "del_find"
    /\ \E res \in One(RowsOf(req[r].user_id, req[r].product_id)) :
        /\ Returned(r, res.tag = "Err")
        /\ IF res.tag = "Err"
           THEN Finish(r, StatusInternalServerError, <<>>) /\ UNCHANGED existing_cart
           ELSE IF res.tag = "None"
           THEN Finish(r, StatusNotFound, <<>>) /\ UNCHANGED existing_cart
           ELSE Goto(r, "del_delete") /\ existing_cart' = [existing_cart EXCEPT ![r] = res.val]
    /\ UNCHANGED <<products, carts, nextId, clock, req, now>>

\* line 332: cart_item.delete(db) is Ok whatever the number of rows it removed
DelDelete(r) ==
    /\ pc[r] = "del_delete"
    /\ \E outcome \in {"Ok", "Err"} :
        /\ Returned(r, outcome = "Err")
        /\ IF outcome = "Err"
           THEN Finish(r, StatusInternalServerError, <<>>) /\ UNCHANGED carts
           ELSE carts' = DeleteById(existing_cart[r].id) /\ Finish(r, StatusOk, <<>>)
    /\ UNCHANGED <<products, nextId, clock, req, now, existing_cart>>

delete_cart_item(r) == DelStart(r) \/ DelValidate(r) \/ DelFind(r) \/ DelDelete(r)

(* ------------------ delete_all_cart_item_per_user_id ------------------- *)
\* DELETE /carts/{user_id} arrives
ClearStart(r) ==
    /\ Arrives(r)
    /\ \E u \in Users :
        req' = [req EXCEPT ![r] = Request("delete_all_cart_item_per_user_id", u, 0, 0)]
    /\ Goto(r, "clear_find")
    /\ UNCHANGED <<products, carts, nextId, clock, now, existing_cart, db_err>>

\* a lookup that forgets the user_id filter
ClearLookupAnyUser(u) == One(carts)

\* the rows the lookup of lines 384-387 can return
ClearLookup(u) == One(RowsOfUser(u))

\* lines 384-387
ClearFind(r) ==
    /\ pc[r] = "clear_find"
    /\ \E res \in ClearLookup(req[r].user_id) :
        /\ Returned(r, res.tag = "Err")
        /\ IF res.tag = "Err"
           THEN Finish(r, StatusInternalServerError, <<>>) /\ UNCHANGED existing_cart
           ELSE IF res.tag = "None"
           THEN Finish(r, StatusNotFound, <<>>) /\ UNCHANGED existing_cart
           ELSE Goto(r, "clear_delete") /\ existing_cart' = [existing_cart EXCEPT ![r] = res.val]
    /\ UNCHANGED <<products, carts, nextId, clock, req, now>>

\* the table after the delete of line 393
ClearedCarts(u, cart_item) == DeleteById(cart_item.id)

\* line 393
ClearDelete(r) ==
    /\ pc[r] = "clear_delete"
    /\ \E outcome \in {"Ok", "Err"} :
        /\ Returned(r, outcome = "Err")
        /\ IF outcome = "Err"
           THEN Finish(r, StatusInternalServerError, <<>>) /\ UNCHANGED carts
           ELSE /\ carts' = ClearedCarts(req[r].user_id, existing_cart[r])
                /\ Finish(r, StatusOk, <<>>)
    /\ UNCHANGED <<products, nextId, clock, req, now, existing_cart>>

delete_all_cart_item_per_user_id(r) == ClearStart(r) \/ ClearFind(r) \/ ClearDelete(r)

(* ---------------------------- delete_product --------------------------- *)
\* DELETE /products/{product_id} arrives
DelProdStart(r) ==
    /\ Arrives(r)
    /\ \E p \in ProductIds :
        req' = [req EXCEPT ![r] = Request("delete_product", 0, p, 0)]
    /\ Goto(r, "delprod_exec")
    /\ UNCHANGED <<products, carts, nextId, clock, now, existing_cart, db_err>>

\* handlers/products.rs lines 257-277
DelProdExec(r) ==
    /\ pc[r] = "delprod_exec"
    /\ \E outcome \in {"Ok", "Err"} :
        /\ Returned(r, outcome = "Err")
        /\ IF outcome = "Err"
           THEN Finish(r, StatusInternalServerError, <<>>) /\ UNCHANGED products
           ELSE /\ products' = {row \in products : row.id # req[r].product_id}
                /\ IF ProductExists(req[r].product_id)
                   THEN Finish(r, StatusOk, <<>>)
                   ELSE Finish(r, StatusNotFound, <<>>)
    /\ UNCHANGED <<carts, nextId, clock, req, now, existing_cart>>

delete_product(r) == DelProdStart(r) \/ DelProdExec(r)

(* ---------------------------- create_product --------------------------- *)
\* the product names the requests carry: a letter, its capital, and the
\* letter between spaces
NameInputs == {<<"a">>, <<"A">>, <<" ", "a", " ">>}

RECURSIVE TrimStart(_)
TrimStart(name) ==
    IF name # <<>> /\ Head(name) = " " THEN TrimStart(Tail(name)) ELSE name

RECURSIVE TrimEnd(_)
TrimEnd(name) ==
    IF name # <<>> /\ name[Len(name)] = " "
    THEN TrimEnd(SubSeq(name, 1, Len(name) - 1)) ELSE name

\* str::trim of line 26
Trim(name) == TrimEnd(TrimStart(name))

\* the rows the filter of line 30 selects: product_name = $1, as the store
\* compares strings
RowsNamed(normalized_name) == {row \in products : row.product_name = normalized_name}

\* the prices a NewProduct body carries: 5.00
PriceInputs == {500}

\* a request with a NewProduct body
ProductRequest(o, p, name, price) ==
    [op |-> o, user_id |-> 0, product_id |-> p, total_qty |-> 0,
     product_name |-> name, price |-> price]

\* POST /products/ arrives; line 25 reads the clock
CreateStart(r) ==
    /\ Arrives(r)
    /\ \E name \in NameInputs, price \in PriceInputs, t \in local_datetime :
        /\ req' = [req EXCEPT ![r] = ProductRequest("create_product", 0, name, price)]
        /\ now' = [now EXCEPT ![r] = t]
        /\ clock' = t
    /\ Goto(r, "create_find")
    /\ UNCHANGED <<products, carts, nextId, existing_cart, db_err>>

\* lines 29-45
CreateFind(r) ==
    /\ pc[r] = "create_find"
    /\ \E res \in One(RowsNamed(Trim(req[r].product_name))) :
        /\ Returned(r, res.tag = "Err")
        /\ IF res.tag = "Err" THEN Finish(r, StatusInternalServerError, <<>>)
           ELSE IF res.tag = "Some" THEN Finish(r, StatusConflict, <<>>)
           ELSE Goto(r, "create_insert")
    /\ UNCHANGED <<products, carts, nextId, clock, req, now, existing_cart>>

\* lines 48-70; the id is a fresh Uuid::new_v4()
CreateInsert(r) ==
    /\ pc[r] = "create_insert"
    /\ \E outcome \in {"Ok", "Err"} :
        /\ Returned(r, outcome = "Err")
        /\ IF outcome = "Err"
           THEN Finish(r, StatusInternalServerError, <<>>) /\ UNCHANGED <<products, nextId>>
           ELSE LET row == [id |-> nextId,
                            product_name |-> Trim(req[r].product_name),
                            price |-> req[r].price]
                IN /\ products' = products \cup {row}
                   /\ nextId' = nextId + 1
                   /\ Finish(r, StatusCreated, <<row>>)
    /\ UNCHANGED <<carts, clock, req, now, existing_cart>>

create_product(r) == CreateStart(r) \/ CreateFind(r) \/ CreateInsert(r)

(* ---------------------------- update_product --------------------------- *)
\* PUT /products/{product_id}/ arrives with a NewProduct body
UpdProdStart(r) ==
    /\ Arrives(r)
    /\ \E p \in ProductIds, name \in NameInputs, price \in PriceInputs :
        req' = [req EXCEPT ![r] = ProductRequest("update_product", p, name, price)]
    /\ Goto(r, "updprod_find")
    /\ UNCHANGED <<products, carts, nextId, clock, now, existing_cart, db_err>>

\* lines 191-208: find_by_id, then the clock is read
UpdProdFind(r) ==
    /\ pc[r] = "updprod_find"
    /\ \E res \in find_product_by_id(req[r].product_id), t \in local_datetime :
        /\ Returned(r, res = "Err")
        /\ IF res = "Err"
           THEN Finish(r, StatusInternalServerError, <<>>) /\ UNCHANGED <<now, clock>>
           ELSE IF res = "None"
           THEN Finish(r, StatusNotFound, <<>>) /\ UNCHANGED <<now, clock>>
           ELSE /\ Goto(r, "updprod_update")
                /\ now' = [now EXCEPT ![r] = t]
                /\ clock' = t
    /\ UNCHANGED <<products, carts, nextId, req, existing_cart>>

\* lines 209-221: the row the UPDATE writes; the name is trimmed
UpdatedProduct(id, name, price) ==
    [id |-> id, product_name |-> Trim(name), price |-> price]

\* lines 224-233: UPDATE products SET ... WHERE id; the update of a row that
\* is gone is DbErr::RecordNotUpdated
UpdProdUpdate(r) ==
    /\ pc[r] = "updprod_update"
    /\ \E outcome \in {"Ok", "Err"} :
        LET failed == outcome = "Err" \/ ~ProductExists(req[r].product_id)
            row == UpdatedProduct(req[r].product_id, req[r].product_name, req[r].price)
        IN /\ Returned(r, failed)
           /\ IF failed
              THEN Finish(r, StatusInternalServerError, <<>>) /\ UNCHANGED products
              ELSE /\ products' = {IF x.id = row.id THEN row ELSE x : x \in products}
                   /\ Finish(r, StatusOk, <<row>>)
    /\ UNCHANGED <<carts, nextId, clock, req, now, existing_cart>>

update_product(r) == UpdProdStart(r) \/ UpdProdFind(r) \/ UpdProdUpdate(r)

(* ------------------------------- Next ---------------------------------- *)
Handler(r) ==
    \/ add_to_cart(r)
    \/ get_cart_by_user_id(r)
    \/ update_cart_qty(r)
    \/ delete_cart_item(r)
    \/ delete_all_cart_item_per_user_id(r)
    \/ create_product(r)
    \/ update_product(r)
    \/ delete_product(r)

Next == \E r \in Req : Handler(r)

Spec == Init /\ [][Next]_vars

\* requests handled one after the other: a request arrives only when no
\* other request is in flight
InFlight(r) == pc[r] \notin {"idle", "done"}

Alone(r) == \A s \in Req \ {r} : ~InFlight(s)

NextSeq ==
    \E r \in Req :
        \/ Alone(r) /\ add_to_cart(r)
        \/ Alone(r) /\ get_cart_by_user_id(r)
        \/ Alone(r) /\ update_cart_qty(r)
        \/ Alone(r) /\ delete_cart_item(r)
        \/ Alone(r) /\ delete_all_cart_item_per_user_id(r)
        \/ Alone(r) /\ create_product(r)
        \/ Alone(r) /\ update_product(r)
        \/ Alone(r) /\ delete_product(r)

SpecSeq == Init /\ [][NextSeq]_vars

(* ------- a user filling an empty cart, one add_to_cart after another ----- *)
MaxSeqReq == 4       \* requests of the sequence: the adds and the get
MaxSeqQty == 3       \* largest quantity an add of the sequence carries

SeqReq == 1..MaxSeqReq

InitAdds ==
    /\ products \in {{ProductRow(p) : p \in S} : S \in SUBSET ProductIds}
    /\ carts = {}
    /\ nextId = NumUsers * NumProducts + 1
    /\ clock = 0
    /\ pc = [r \in SeqReq |-> "idle"]
    /\ req = [r \in SeqReq |-> NoReq]
    /\ now = [r \in SeqReq |-> 0]
    /\ existing_cart = [r \in SeqReq |-> NoRow]
    /\ db_err = [r \in SeqReq |-> FALSE]
    /\ resp = [r \in SeqReq |-> StatusNone]
    /\ data = [r \in SeqReq |-> <<>>]

\* add_to_cart and get_cart_by_user_id requests, handled one at a time
NextAdds ==
    \E r \in SeqReq :
        /\ \A s \in SeqReq \ {r} : ~InFlight(s)
        /\ \/ AddStartWith(r, 0..MaxSeqQty)
           \/ AddValidate(r)
           \/ AddFind(r)
           \/ AddUpdate(r)
           \/ AddInsert(r)
           \/ get_cart_by_user_id(r)

SpecAdds == InitAdds /\ [][NextAdds]_vars

\* every store call a request awaits returns, with a result or an error, so
\* a request in flight takes its next step
\* a row of quantity 1 for every pair, read when the clock shows its latest
\* reading: neither a quantity nor a timestamp decides whether a call
\* returns, and the requests themselves remove rows
InitLive ==
    /\ products \in {{ProductRow(p) : p \in S} : S \in SUBSET ProductIds}
    /\ carts = {InitRow(pr, 1) : pr \in Pairs}
    /\ nextId = NumUsers * NumProducts + 1
    /\ clock = MaxClock
    /\ pc = [r \in Req |-> "idle"]
    /\ req = [r \in Req |-> NoReq]
    /\ now = [r \in Req |-> 0]
    /\ existing_cart = [r \in Req |-> NoRow]
    /\ db_err = [r \in Req |-> FALSE]
    /\ resp = [r \in Req |-> StatusNone]
    /\ data = [r \in Req |-> <<>>]

SpecLive ==
    /\ InitLive /\ [][Next]_vars
    /\ \A r \in Req : WF_vars(InFlight(r) /\ Handler(r))

(* ---- reading a table that racing add_to_cart calls left duplicates in --- *)
MaxAggRows == 3

\* a row some add_to_cart inserted and later calls may have updated
AggRow(id, p, q, created, updated) ==
    [NewCartRow(id, 1, p, q, created) EXCEPT !.updated_at = updated]

\* the tables of MaxAggRows rows or fewer, ids in insertion order; no key
\* of the carts migration keeps two rows of one pair apart, and no check
\* orders created_at and updated_at (racing add_to_cart calls leave a row
\* updated before it was created); a row holds a small quantity or the
\* largest one of the column
AggCarts ==
    UNION {{{AggRow(id, f[id][1], f[id][2], f[id][3], f[id][4]) : id \in 1..k} :
            f \in [1..k -> ProductIds \X ((1..MaxQty) \cup {I32Max})
                              \X (0..MaxClock) \X (0..MaxClock)]} :
           k \in 0..MaxAggRows}

InitAgg ==
    /\ products \in {{ProductRow(p) : p \in S} : S \in SUBSET ProductIds}
    /\ carts \in AggCarts
    /\ nextId = Cardinality(carts) + 1
    /\ clock = MaxClock
    /\ pc = [r \in Req |-> "idle"]
    /\ req = [r \in Req |-> NoReq]
    /\ now = [r \in Req |-> 0]
    /\ existing_cart = [r \in Req |-> NoRow]
    /\ db_err = [r \in Req |-> FALSE]
    /\ resp = [r \in Req |-> StatusNone]
    /\ data = [r \in Req |-> <<>>]

\* one get_cart_by_user_id reads the table; it writes nothing, so the reads
\* of other requests see the same table
NextAgg == get_cart_by_user_id(1)

SpecAgg == InitAgg /\ [][NextAgg]_vars

(* ------------- carts holding quantities up to the i32 limit ------------- *)
\* the tables add_to_cart calls with quantities 1 and I32Max leave behind
BigCarts ==
    UNION {{{InitRow(pr, q[pr]) : pr \in P} : q \in [P -> {1, I32Max}]} :
           P \in {S \in SUBSET Pairs : Cardinality(S) <= MaxInitRows}}

InitBig ==
    /\ products \in {{ProductRow(p) : p \in S} : S \in SUBSET ProductIds}
    /\ carts \in BigCarts
    /\ nextId = NumUsers * NumProducts + 1
    /\ clock = 0
    /\ pc = [r \in Req |-> "idle"]
    /\ req = [r \in Req |-> NoReq]
    /\ now = [r \in Req |-> 0]
    /\ existing_cart = [r \in Req |-> NoRow]
    /\ db_err = [r \in Req |-> FALSE]
    /\ resp = [r \in Req |-> StatusNone]
    /\ data = [r \in Req |-> <<>>]

\* the four operations that write carts
NextBig ==
    \E r \in Req :
        \/ add_to_cart(r)
        \/ update_cart_qty(r)
        \/ delete_cart_item(r)
        \/ delete_all_cart_item_per_user_id(r)

SpecBig == InitBig /\ [][NextBig]_vars

(* ---------- carts shared with a user who sends no request --------------- *)
\* a user_id other than the ones the requests carry
Bystander == NumUsers + 1

\* the rows of the bystander: one per product, as add_to_cart inserts them
BystanderRows == {InitRow(<<Bystander, p>>, 1) : p \in ProductIds}

InitShared ==
    /\ products \in {{ProductRow(p) : p \in S} : S \in SUBSET ProductIds}
    /\ carts \in {t \cup BystanderRows : t \in InitCarts}
    /\ nextId = (NumUsers + 1) * NumProducts + 1
    /\ clock = 0
    /\ pc = [r \in Req |-> "idle"]
    /\ req = [r \in Req |-> NoReq]
    /\ now = [r \in Req |-> 0]
    /\ existing_cart = [r \in Req |-> NoRow]
    /\ db_err = [r \in Req |-> FALSE]
    /\ resp = [r \in Req |-> StatusNone]
    /\ data = [r \in Req |-> <<>>]

SpecShared == InitShared /\ [][NextBig]_vars

(* --------------- the catalogue create_product calls build --------------- *)
\* no product, or the one product an earlier create_product inserted
InitProducts ==
    /\ products \in {{}} \cup
           {{[id |-> 1, product_name |-> Trim(name), price |-> 999]} : name \in NameInputs}
    /\ carts = {}
    /\ nextId = 2
    /\ clock = 0
    /\ pc = [r \in Req |-> "idle"]
    /\ req = [r \in Req |-> NoReq]
    /\ now = [r \in Req |-> 0]
    /\ existing_cart = [r \in Req |-> NoRow]
    /\ db_err = [r \in Req |-> FALSE]
    /\ resp = [r \in Req |-> StatusNone]
    /\ data = [r \in Req |-> <<>>]

\* create_product calls handled one at a time
NextProducts ==
    \E r \in Req :
        \/ Alone(r) /\ CreateStart(r)
        \/ Alone(r) /\ CreateFind(r)
        \/ Alone(r) /\ CreateInsert(r)

SpecProducts == InitProducts /\ [][NextProducts]_vars

(* ------------------------------ properties ----------------------------- *)
Done(r) == pc[r] = "done"

IsAdd(r) == req[r].op = "add_to_cart"
IsUpdate(r) == req[r].op = "update_cart_qty"
IsRemove(r) == req[r].op = "delete_cart_item"
IsClear(r) == req[r].op = "delete_all_cart_item_per_user_id"

SamePair(r1, r2) ==
    req[r1].user_id = req[r2].user_id /\ req[r1].product_id = req[r2].product_id

Succeeded(r) == resp[r] \in {StatusOk, StatusCreated}

Min(a, b) == IF a <= b THEN a ELSE b

\* C1: in every reachable state at most one CartLine row exists for any
\* (user_id, product_id) pair.
AtMostOneLinePerPair ==
    \A u \in Users, p \in ProductIds : Cardinality(RowsOf(u, p)) <= 1

\* C2: when two add_to_cart requests for the same pair both merged into the
\* same line and both reported success, and nothing else ran, the stored
\* quantity is q0 + a + b.  q0 is the smaller of the two quantities read:
\* merges only add positive quantities, so the first reader saw q0.
NoLostIncrement ==
    \A r1, r2 \in Req :
        (/\ r1 < r2
         /\ Done(r1) /\ Done(r2) /\ IsAdd(r1) /\ IsAdd(r2) /\ SamePair(r1, r2)
         /\ resp[r1] = StatusOk /\ resp[r2] = StatusOk
         /\ existing_cart[r1].id = existing_cart[r2].id
         /\ \A r \in Req \ {r1, r2} : pc[r] = "idle")
        => \A c \in carts :
            c.id = existing_cart[r1].id =>
                c.total_qty = Min(existing_cart[r1].total_qty, existing_cart[r2].total_qty)
                              + req[r1].total_qty + req[r2].total_qty

\* C3: handled alone, an add_to_cart with qty > 0 for a pair that has a line of
\* quantity q0 takes the merge path and, when it reports success, leaves exactly
\* one line for the pair, with total_qty = q0 + qty.
AddMergesAdditively ==
    [][\A r \in Req :
        LET u == req[r].user_id
            p == req[r].product_id
        IN /\ (pc[r] = "add_find" /\ pc'[r] # "add_find" /\ RowsOf(u, p) # {})
                => (pc'[r] = "add_update" /\ existing_cart'[r] \in RowsOf(u, p))
                   \/ resp'[r] = StatusInternalServerError
           /\ (pc[r] = "add_update" /\ pc'[r] = "done")
                => resp'[r] \in {StatusOk, StatusInternalServerError}
           /\ (pc[r] = "add_update" /\ resp'[r] = StatusOk)
                => /\ Cardinality(RowsOf(u, p)) = 1
                   /\ Cardinality(RowsOf(u, p)') = 1
                   /\ \A c \in RowsOf(u, p), d \in RowsOf(u, p)' :
                        d.total_qty = c.total_qty + req[r].total_qty
                   /\ data'[r] = <<CHOOSE d \in RowsOf(u, p)' : TRUE>>]_vars

AddMergedWitness ==
    \E r \in Req :
        /\ Done(r) /\ IsAdd(r) /\ resp[r] = StatusOk
        /\ existing_cart[r].total_qty = 2 /\ req[r].total_qty = 1
        /\ \E c \in carts : c.id = existing_cart[r].id /\ c.total_qty = 3

\* C4: handled alone, an add_to_cart with qty > 0 for a pair that has no line
\* takes the insert path and, when it reports success, has created exactly one
\* line for the pair, with total_qty = qty and created_at = updated_at = now.
AddCreatesOneLine ==
    [][\A r \in Req :
        LET u == req[r].user_id
            p == req[r].product_id
        IN /\ (pc[r] = "add_find" /\ pc'[r] # "add_find" /\ RowsOf(u, p) = {})
                => pc'[r] = "add_insert" \/ resp'[r] = StatusInternalServerError
           /\ (pc[r] = "add_insert" /\ pc'[r] = "done")
                => resp'[r] \in {StatusCreated, StatusInternalServerError}
           /\ (pc[r] = "add_insert" /\ resp'[r] = StatusCreated)
                => /\ RowsOf(u, p) = {}
                   /\ Cardinality(RowsOf(u, p)') = 1
                   /\ Cardinality(carts' \ carts) = 1 /\ carts \subseteq carts'
                   /\ \A d \in RowsOf(u, p)' :
                        /\ d.total_qty = req[r].total_qty
                        /\ d.created_at = now[r] /\ d.updated_at = now[r]
                        /\ \A c \in carts : c.id # d.id
                        /\ data'[r] = <<d>>]_vars

AddCreatedWitness ==
    \E r \in Req :
        /\ Done(r) /\ IsAdd(r) /\ resp[r] = StatusCreated /\ now[r] = 1
        /\ req[r].total_qty = 2
        /\ \E c \in RowsOf(req[r].user_id, req[r].product_id) :
            c.total_qty = 2 /\ c.created_at = 1 /\ c.updated_at = 1

\* C5: an update_cart_qty that reports success has set the total_qty of the
\* line it read to new_qty, whatever quantity the line held.
UpdateOverwrites ==
    [][\A r \in Req :
        (pc[r] = "upd_update" /\ resp'[r] = StatusOk)
            => \E c \in carts' :
                /\ c.id = existing_cart[r].id
                /\ c.user_id = req[r].user_id /\ c.product_id = req[r].product_id
                /\ c.total_qty = req[r].total_qty
                /\ data'[r] = <<c>>
                /\ \A d \in carts' : d.id = c.id => d = c]_vars

UpdateOverwroteWitness ==
    \E r \in Req :
        /\ Done(r) /\ IsUpdate(r) /\ resp[r] = StatusOk
        /\ existing_cart[r].total_qty = 2 /\ req[r].total_qty = 1
        /\ \E c \in carts : c.id = existing_cart[r].id /\ c.total_qty = 1

\* C6 as stated: an add_to_cart with qty <= 0 that meets no storage error
\* answers 400 Bad Request, whatever its product_id.
AddNonPositiveAlwaysBadRequest ==
    \A r \in Req :
        (Done(r) /\ IsAdd(r) /\ req[r].total_qty <= 0
         /\ resp[r] # StatusInternalServerError)
        => resp[r] = StatusBadRequest

\* C6 amended: an add_to_cart with qty <= 0 ends at the validation step and
\* writes nothing; it answers 400 when the product lookup finds the product,
\* 409 when it finds none (the product is checked first) and 500 when the
\* lookup fails.
AddNonPositiveRejected ==
    [][\A r \in Req :
        (req'[r].op = "add_to_cart" /\ req'[r].total_qty <= 0 /\ pc'[r] # pc[r])
        => /\ carts' = carts /\ products' = products /\ nextId' = nextId
           /\ pc'[r] \in {"add_validate", "done"}
           /\ pc'[r] = "done" =>
                \/ resp'[r] = StatusInternalServerError
                \/ resp'[r] = (IF ProductExists(req[r].product_id)
                               THEN StatusBadRequest ELSE StatusConflict)]_vars

AddNonPositiveWitness ==
    \E r1, r2 \in Req :
        /\ Done(r1) /\ IsAdd(r1) /\ req[r1].total_qty <= 0 /\ resp[r1] = StatusBadRequest
        /\ Done(r2) /\ IsAdd(r2) /\ req[r2].total_qty <= 0 /\ resp[r2] = StatusConflict

\* C7: an add_to_cart whose product lookup finds no product answers NotFound
\* (404) and writes nothing to the carts table.
AddMissingProductNotFound ==
    [][\A r \in Req :
        (/\ pc[r] = "add_validate" /\ pc'[r] # "add_validate"
         /\ ~ProductExists(req[r].product_id)
         /\ resp'[r] # StatusInternalServerError)
        => resp'[r] = StatusNotFound /\ carts' = carts]_vars

\* C8: an update_cart_qty (new_qty > 0, product found) whose lookup finds no
\* line for the pair answers 404, and an update_cart_qty that answers 404 has
\* created no row and changed no row.
UpdateWithoutLineNotFound ==
    [][\A r \in Req :
        LET u == req[r].user_id
            p == req[r].product_id
        IN /\ (/\ pc[r] = "upd_find" /\ pc'[r] # "upd_find" /\ RowsOf(u, p) = {}
               /\ resp'[r] # StatusInternalServerError)
                => pc'[r] = "done" /\ resp'[r] = StatusNotFound
           /\ (req'[r].op = "update_cart_qty" /\ pc'[r] # pc[r]
               /\ pc'[r] # "done" /\ pc[r] # "upd_update")
                => carts' = carts
           /\ (req'[r].op = "update_cart_qty" /\ pc'[r] # pc[r]
               /\ resp'[r] = StatusNotFound)
                => carts' = carts /\ nextId' = nextId /\ RowsOf(u, p) = {}]_vars

UpdateNotFoundWitness ==
    \E r \in Req :
        /\ Done(r) /\ IsUpdate(r) /\ resp[r] = StatusNotFound
        /\ req[r].total_qty > 0 /\ ProductExists(req[r].product_id)
        /\ RowsOf(req[r].user_id, req[r].product_id) = {}
        /\ carts # {}

\* the line of r's pair existed when r1 arrived: r1 deleted it or it is still
\* there, nothing having run after r2
LineExistedBefore(r1, r2) ==
    /\ \A s \in Req : s > r2 => pc[s] = "idle"
    /\ \/ resp[r1] = StatusOk
       \/ RowsOf(req[r1].user_id, req[r1].product_id) # {}

TwoRemovesInARow(r1, r2) ==
    /\ r2 = r1 + 1
    /\ Done(r1) /\ Done(r2) /\ IsRemove(r1) /\ IsRemove(r2) /\ SamePair(r1, r2)
    /\ resp[r1] # StatusInternalServerError /\ resp[r2] # StatusInternalServerError

\* C9 as stated: two delete_cart_item calls in a row on a pair that had a line
\* report a successful delete, then NotFound.
RemoveTwiceDeletesOnce ==
    \A r1, r2 \in Req :
        (TwoRemovesInARow(r1, r2) /\ LineExistedBefore(r1, r2))
        => resp[r1] = StatusOk /\ resp[r2] = StatusNotFound

\* C9 amended: two delete_cart_item calls in a row on a pair that had a line
\* and whose product is in the products table report a successful delete,
\* then NotFound, and leave no line for the pair.
RemoveTwiceDeletesOnceIfProduct ==
    \A r1, r2 \in Req :
        (/\ TwoRemovesInARow(r1, r2) /\ LineExistedBefore(r1, r2)
         /\ ProductExists(req[r1].product_id))
        => /\ resp[r1] = StatusOk /\ resp[r2] = StatusNotFound
           /\ RowsOf(req[r1].user_id, req[r1].product_id) = {}

RemoveTwiceWitness ==
    \E r1, r2 \in Req :
        /\ TwoRemovesInARow(r1, r2) /\ ProductExists(req[r1].product_id)
        /\ resp[r1] = StatusOk /\ resp[r2] = StatusNotFound

\* C10: once delete_all_cart_item_per_user_id has reported success for user
\* u, and nothing ran after it, u has no CartLine rows.
ClearCartRemovesAll ==
    \A r \in Req :
        (/\ Done(r) /\ IsClear(r) /\ resp[r] = StatusOk
         /\ \A s \in Req : s > r => pc[s] = "idle")
        => RowsOfUser(req[r].user_id) = {}

(* ------------------------- the aggregated view ------------------------- *)
IsGet(r) == req[r].op = "get_cart_by_user_id"

\* the positions of the rows of product p in the view request r returned
ViewRowsOf(r, p) == {i \in DOMAIN data[r] : data[r][i].product_id = p}

RECURSIVE QtyUpToId(_, _, _)
\* the quantities of the rows of (u, p) with ids 1..n, added row by row
QtyUpToId(u, p, n) ==
    IF n = 0 THEN 0
    ELSE QtyUpToId(u, p, n - 1) +
         (IF \E c \in RowsOf(u, p) : c.id = n
          THEN (CHOOSE c \in RowsOf(u, p) : c.id = n).total_qty ELSE 0)

\* view row v aggregates the rows of (u, p)
Aggregates(v, u, p) ==
    /\ v.total_qty = QtyUpToId(u, p, nextId - 1)
    /\ \E c \in RowsOf(u, p) : c.created_at = v.created_at
    /\ \A c \in RowsOf(u, p) : v.created_at <= c.created_at
    /\ \E c \in RowsOf(u, p) : c.updated_at = v.updated_at
    /\ \A c \in RowsOf(u, p) : c.updated_at <= v.updated_at
    /\ \E c \in RowsOf(u, p) : c.id = v.id /\ c.created_at = v.created_at

\* C11 as stated: whenever a user has several rows for one product, the view
\* of get_cart_by_user_id holds one row for that product, aggregating them.
DuplicatesAlwaysAggregated ==
    \A r \in Req : \A p \in ProductIds :
        (/\ Done(r) /\ IsGet(r) /\ resp[r] # StatusInternalServerError
         /\ Cardinality(RowsOf(req[r].user_id, p)) >= 2)
        => /\ Cardinality(ViewRowsOf(r, p)) = 1
           /\ \A i \in ViewRowsOf(r, p) : Aggregates(data[r][i], req[r].user_id, p)

\* C11: when a user has several rows for one product (the product being in
\* the products table), the view a successful get_cart_by_user_id returns
\* holds one row for that product, whose total_qty is the sum of the rows'
\* quantities, created_at the least created_at, updated_at the greatest
\* updated_at, and id the id of a row created earliest.  When the sum is
\* above the i32 range the get does not succeed: it answers 500.
DuplicatesAggregated ==
    \A r \in Req : \A p \in ProductIds :
        (/\ Done(r) /\ IsGet(r)
         /\ Cardinality(RowsOf(req[r].user_id, p)) >= 2
         /\ ProductExists(p))
        => IF CastFits(SumBig(RowsOf(req[r].user_id, p)))
           THEN resp[r] = StatusOk
                => /\ Cardinality(ViewRowsOf(r, p)) = 1
                   /\ \A i \in ViewRowsOf(r, p) :
                          Aggregates(data[r][i], req[r].user_id, p)
           ELSE resp[r] = StatusInternalServerError /\ data[r] = <<>>

\* a view was returned for a product with rows of different quantities,
\* creation times and update times
DuplicatesAggregatedWitness ==
    \E r \in Req : \E p \in ProductIds :
        /\ Done(r) /\ IsGet(r) /\ resp[r] = StatusOk /\ ViewRowsOf(r, p) # {}
        /\ \E c, d \in RowsOf(req[r].user_id, p) :
               /\ c.id < d.id /\ c.created_at > d.created_at
               /\ c.updated_at # d.updated_at /\ c.total_qty # d.total_qty

\* request r is the last one that arrived
Latest(r) == \A s \in Req : s > r => pc[s] = "idle"

\* C12: get_cart_by_user_id for a user without any row in carts answers
\* NotFound and returns no aggregated row (requests handled one at a time,
\* no storage error).
GetWithoutRowsNotFound ==
    \A r \in Req :
        (/\ Done(r) /\ IsGet(r) /\ Latest(r)
         /\ RowsOfUser(req[r].user_id) = {}
         /\ resp[r] # StatusInternalServerError)
        => resp[r] = StatusNotFound /\ data[r] = <<>>

\* a get answered for a user whose last row an earlier request removed
GetWithoutRowsWitness ==
    \E r \in Req : \E s \in Req :
        /\ s < r /\ Done(s) /\ IsRemove(s) /\ resp[s] = StatusOk
        /\ Done(r) /\ IsGet(r) /\ RowsOfUser(req[r].user_id) = {}
        /\ resp[r] = StatusNotFound

IsDeleteProduct(r) == req[r].op = "delete_product"

\* user u has a row whose product is in the products table
HasJoinedRow(u) == \E c \in RowsOfUser(u) : ProductExists(c.product_id)

\* C13 as stated: a get answers a non-empty view whenever the user has a
\* row, and NotFound only when the user has none.
ViewEmptyIffNoRows ==
    \A r \in Req :
        (Done(r) /\ IsGet(r) /\ Latest(r) /\ resp[r] # StatusInternalServerError)
        => /\ RowsOfUser(req[r].user_id) # {} => resp[r] = StatusOk /\ data[r] # <<>>
           /\ resp[r] = StatusNotFound => RowsOfUser(req[r].user_id) = {}

\* C13: a get answers a non-empty view exactly when the user has a row whose
\* product is in the products table, and NotFound otherwise: when the user
\* has no row, and when all the rows of the user are of deleted products
\* (requests handled one at a time, no storage error).
ViewEmptyIffNoJoinedRows ==
    \A r \in Req :
        (Done(r) /\ IsGet(r) /\ Latest(r) /\ resp[r] # StatusInternalServerError)
        => IF HasJoinedRow(req[r].user_id)
           THEN resp[r] = StatusOk /\ data[r] # <<>>
           ELSE resp[r] = StatusNotFound /\ data[r] = <<>>

\* a get answered NotFound for a user with a row, after the row's product
\* was deleted by delete_product
ViewEmptyWithRowsWitness ==
    \E r \in Req : \E s \in Req :
        /\ s < r /\ Done(s) /\ IsDeleteProduct(s) /\ resp[s] = StatusOk
        /\ Done(r) /\ IsGet(r) /\ resp[r] = StatusNotFound
        /\ \E c \in RowsOfUser(req[r].user_id) : c.product_id = req[s].product_id

RECURSIVE AddedQty(_, _, _)
\* the quantities of the successful add_to_cart calls for (u, p) among the
\* requests 1..n, added one by one
AddedQty(u, p, n) ==
    IF n = 0 THEN 0
    ELSE AddedQty(u, p, n - 1) +
         (IF /\ Done(n) /\ IsAdd(n) /\ Succeeded(n)
             /\ req[n].user_id = u /\ req[n].product_id = p
          THEN req[n].total_qty ELSE 0)

\* the number a wide [hi, lo] pair stands for
WideValue(w) == w.hi * Limb + w.lo

\* C14: after successful add_to_cart calls by u for P with quantities
\* q1..qn, handled one at a time from a cart without a row for P and with
\* the price of P unchanged, the view of a get_cart_by_user_id(u) holds
\* exactly one row for P, whose total_qty is q1 + ... + qn and whose
\* sub_total_price, in hundredths, is that total times the price of P
\* (999 * P hundredths).
AddsThenGetShowsSum ==
    \A r \in SeqReq : \A p \in ProductIds :
        (/\ Done(r) /\ IsGet(r) /\ resp[r] # StatusInternalServerError
         /\ AddedQty(req[r].user_id, p, r - 1) > 0)
        => /\ resp[r] = StatusOk
           /\ Cardinality(ViewRowsOf(r, p)) = 1
           /\ \A i \in ViewRowsOf(r, p) :
                  /\ data[r][i].total_qty = AddedQty(req[r].user_id, p, r - 1)
                  /\ data[r][i].product_price = 999 * p
                  /\ WideValue(data[r][i].sub_total_price) =
                         AddedQty(req[r].user_id, p, r - 1) * 999 * p

\* the example of the claim: product 1 costs 9.99; an add of 2 creates the
\* row, an add of 3 merges into it, and the get shows quantity 5 and the
\* sub-total 49.95
AddsThenGetWitness ==
    /\ Done(1) /\ IsAdd(1) /\ resp[1] = StatusCreated
    /\ req[1].product_id = 1 /\ req[1].total_qty = 2
    /\ Done(2) /\ IsAdd(2) /\ resp[2] = StatusOk
    /\ req[2].product_id = 1 /\ req[2].total_qty = 3
    /\ Done(3) /\ IsGet(3) /\ resp[3] = StatusOk
    /\ Len(data[3]) = 1
    /\ data[3][1].product_id = 1 /\ data[3][1].total_qty = 5
    /\ data[3][1].product_price = 999
    /\ data[3][1].sub_total_price = [hi |-> 0, lo |-> 4995]

\* C15: every row of carts has total_qty > 0 in every reachable state, for
\* add_to_cart, update_cart_qty, delete_cart_item and
\* delete_all_cart_item_per_user_id requests with quantities of the whole
\* i32 range.
QtyAlwaysPositive == \A c \in carts : c.total_qty > 0

\* C16: the step that completes a successful add_to_cart(u, p, qty) writes
\* exactly one row, a row of (u, p), which it returns: created, or updated
\* in place; every other row is left as it was, and no other step of the
\* request writes.
AddTouchesOneLine ==
    [][\A r \in Req :
         (pc[r] # pc'[r] /\ req'[r].op = "add_to_cart")
         => IF pc'[r] = "done" /\ resp'[r] \in {StatusOk, StatusCreated}
            THEN \E c \in carts' :
                    /\ c.user_id = req[r].user_id /\ c.product_id = req[r].product_id
                    /\ data'[r] = <<c>>
                    /\ {d \in carts' : d.id # c.id} = {d \in carts : d.id # c.id}
            ELSE carts' = carts]_vars

\* an add succeeded by updating a row while the user held a row of another
\* product
AddTouchesOneLineWitness ==
    \E r \in Req :
        /\ Done(r) /\ IsAdd(r) /\ resp[r] = StatusOk
        /\ \E c \in RowsOfUser(req[r].user_id) : c.product_id # req[r].product_id

\* C17: every insert or quantity write of add_to_cart and update_cart_qty
\* happens in a state where the product of the row is in the products
\* table, also when delete_product runs between the check and the write.
WritesSeeProduct ==
    [][\A r \in Req :
         (/\ pc[r] \in {"add_insert", "add_update", "upd_update"}
          /\ pc'[r] = "done" /\ resp'[r] \in {StatusOk, StatusCreated})
         => ProductExists(req[r].product_id)]_vars

\* C18: when the row update_cart_qty read was deleted by a concurrent
\* delete_cart_item or delete_all_cart_item_per_user_id before the write,
\* the update answers NotFound and the row is not created again.
UpdateOfDeletedRowNotFound ==
    [][\A r \in Req :
         (/\ pc[r] = "upd_update" /\ pc'[r] = "done"
          /\ ~(\E c \in carts : c.id = existing_cart[r].id))
         => resp'[r] = StatusNotFound /\ carts' = carts]_vars

\* C19: the sequence get_cart_by_user_id returns holds exactly one row per
\* product_id among the rows of the user whose product is in the products
\* table, by ascending product_id.
ViewOnePerProductAscending ==
    \A r \in Req :
        (Done(r) /\ IsGet(r) /\ resp[r] # StatusInternalServerError)
        => /\ \A i, j \in DOMAIN data[r] :
                  i < j => data[r][i].product_id < data[r][j].product_id
           /\ {data[r][i].product_id : i \in DOMAIN data[r]} =
                  {p \in ProductIds : RowsOf(req[r].user_id, p) # {} /\ ProductExists(p)}

\* a view of two products returned for a table of three rows
ViewOnePerProductWitness ==
    \E r \in Req :
        /\ Done(r) /\ IsGet(r) /\ resp[r] = StatusOk
        /\ Len(data[r]) = 2 /\ Cardinality(RowsOfUser(req[r].user_id)) = 3

\* C20: when a store call of a request (product lookup, cart lookup,
\* insert, update, delete, aggregation query) returns a storage error, the
\* request ends there with an error response, never a success, and makes no
\* further store call.
StorageErrorEndsRequest ==
    \A r \in Req :
        db_err[r] => /\ Done(r)
                     /\ resp[r] = StatusInternalServerError
                     /\ ~Succeeded(r)

\* the write of an update_cart_qty failed after its two lookups succeeded
StorageErrorWitness ==
    \E r \in Req :
        /\ db_err[r] /\ IsUpdate(r) /\ existing_cart[r] # NoRow
        /\ \E c \in carts : c.id = existing_cart[r].id /\ c = existing_cart[r]

\* C21: add_to_cart, update_cart_qty, delete_cart_item and
\* delete_all_cart_item_per_user_id sent for user u never create, change or
\* delete a row of another user, and no row changes its user_id: the rows
\* of the user who sends nothing stay the rows they were.
OtherUsersRowsUntouched ==
    {c \in carts : c.user_id = Bystander} = BystanderRows

\* a delete_all_cart_item_per_user_id and a delete_cart_item of user u both
\* deleted a row
OtherUsersRowsWitness ==
    \E r \in Req : \E s \in Req :
        /\ Done(r) /\ IsClear(r) /\ resp[r] = StatusOk
        /\ Done(s) /\ IsRemove(s) /\ resp[s] = StatusOk
        /\ RowsOfUser(req[r].user_id) = {}

\* C22: every write of add_to_cart's merge and of update_cart_qty to an
\* existing row leaves the id, user_id, product_id and created_at of the
\* row as they were and sets updated_at to the timestamp of the request.
MutationKeepsIdentity ==
    [][\A r \in Req :
         (/\ pc[r] \in {"add_update", "upd_update"}
          /\ pc'[r] = "done" /\ resp'[r] = StatusOk)
         => \E c \in carts : \E d \in carts' :
                /\ c.id = existing_cart[r].id /\ d.id = c.id
                /\ d.user_id = c.user_id /\ d.product_id = c.product_id
                /\ d.created_at = c.created_at
                /\ d.updated_at = now[r]
                /\ data'[r] = <<d>>]_vars

\* a request updated a row created before its timestamp
MutationKeepsIdentityWitness ==
    \E r \in Req : \E c \in carts :
        /\ Done(r) /\ (IsAdd(r) \/ IsUpdate(r)) /\ resp[r] = StatusOk
        /\ c.id = existing_cart[r].id /\ data[r] = <<c>>
        /\ c.created_at < c.updated_at /\ c.updated_at = now[r]

\* C23: every request that arrived completes, with one response, under every
\* interleaving with other requests, provided each store call returns a
\* result or an error; a request in flight can always take its next step,
\* whatever the other requests do.
EveryRequestCompletes ==
    \A r \in Req :
        /\ InFlight(r) ~> Done(r)
        /\ [](Done(r) => resp[r] # StatusNone)
        /\ [](InFlight(r) => resp[r] = StatusNone /\ ENABLED Handler(r))

\* an update_cart_qty completed although the row it read was deleted by
\* another request before its write
EveryRequestCompletesWitness ==
    \E r \in Req : \E s \in Req :
        /\ Done(r) /\ IsUpdate(r) /\ existing_cart[r] # NoRow
        /\ Done(s) /\ (IsRemove(s) \/ IsClear(s)) /\ resp[s] = StatusOk
        /\ existing_cart[s].id = existing_cart[r].id
        /\ resp[r] = StatusInternalServerError

\* the lower-case form of a name
Lower(name) == [i \in DOMAIN name |-> IF name[i] = "A" THEN "a" ELSE name[i]]

\* a product exists whose name equals the new name without regard to case,
\* after trimming
NameTaken(name) ==
    \E row \in products : Lower(Trim(row.product_name)) = Lower(Trim(name))

\* C24: create_product answers 409 Conflict and inserts nothing whenever a
\* product exists whose name equals the new name case-insensitively, after
\* trimming; otherwise it inserts exactly one product.
CreateRejectsSameName ==
    [][\A r \in Req :
         (/\ pc[r] \in {"create_find", "create_insert"} /\ pc'[r] = "done"
          /\ resp'[r] # StatusInternalServerError)
         => IF NameTaken(req[r].product_name)
            THEN resp'[r] = StatusConflict /\ products' = products
            ELSE /\ resp'[r] = StatusCreated
                 /\ products \subseteq products'
                 /\ Cardinality(products' \ products) = 1]_vars

\* C25: a successful delete_all_cart_item_per_user_id(u) removes exactly one
\* row of u, the row its lookup returned: a user with n >= 1 rows has n - 1
\* afterwards; for a user without rows it answers NotFound and deletes
\* nothing (no storage error), whatever other requests run meanwhile.
ClearRemovesOneRow ==
    [][\A r \in Req :
         (/\ pc[r] \in {"clear_find", "clear_delete"} /\ pc'[r] = "done"
          /\ resp'[r] # StatusInternalServerError)
         => LET mine == RowsOfUser(req[r].user_id)
                left == {c \in carts' : c.user_id = req[r].user_id}
            IN IF mine = {}
               THEN resp'[r] = StatusNotFound /\ carts' = carts
               ELSE /\ resp'[r] = StatusOk
                    /\ existing_cart[r] \in mine
                    /\ carts' = carts \ {existing_cart[r]}
                    /\ Cardinality(left) = Cardinality(mine) - 1]_vars

\* C26: delete_cart_item asks for the product before it looks at the cart:
\* for a product_id that is not in the products table it answers the
\* product-missing error (409) and deletes nothing, also when a row of
\* (u, p) exists.
RemoveChecksProductFirst ==
    [][\A r \in Req :
         (/\ pc[r] = "del_validate" /\ pc'[r] # pc[r]
          /\ ~ProductExists(req[r].product_id)
          /\ resp'[r] # StatusInternalServerError)
         => /\ pc'[r] = "done" /\ resp'[r] = StatusConflict
            /\ carts' = carts]_vars

\* a delete_cart_item was refused for a missing product while the row it
\* names is in the table
RemoveChecksProductWitness ==
    \E r \in Req :
        /\ Done(r) /\ IsRemove(r) /\ resp[r] = StatusConflict
        /\ ~ProductExists(req[r].product_id)
        /\ RowsOf(req[r].user_id, req[r].product_id) # {}

\* C27: an add_to_cart(a) and an update_cart_qty(n) running concurrently on
\* one existing row are serializable: when both succeed the row ends with
\* total_qty n (add, then update) or n + a (update, then add).
AddAndUpdateSerializable ==
    \A r \in Req : \A s \in Req :
        (/\ Done(r) /\ IsAdd(r) /\ resp[r] = StatusOk
         /\ Done(s) /\ IsUpdate(s) /\ resp[s] = StatusOk
         /\ existing_cart[r].id = existing_cart[s].id
         /\ \A t \in Req \ {r, s} : pc[t] = "idle")
        => \A c \in carts :
               c.id = existing_cart[r].id
               => c.total_qty \in {req[s].total_qty, req[s].total_qty + req[r].total_qty}

\* C28: in every reachable state every row of carts has created_at <=
\* updated_at, under every interleaving of add_to_cart and update_cart_qty
\* requests, the clock never running backwards.
CreatedBeforeUpdated == \A c \in carts : c.created_at <= c.updated_at

\* C29: a successful get_cart_by_user_id response holds at least one
\* aggregated row: when the rows of the user are all deleted by other
\* requests between the probe and the query, the answer is NotFound, never
\* a success with an empty list.
GetSuccessHasRows ==
    \A r \in Req :
        (Done(r) /\ IsGet(r))
        => /\ resp[r] \in {StatusOk, StatusNotFound, StatusInternalServerError}
           /\ resp[r] = StatusOk <=> data[r] # <<>>

\* a get whose probe found a row of an existing product answered NotFound:
\* another request deleted the row before the query ran
GetSuccessHasRowsWitness ==
    \E r \in Req : \E s \in Req :
        /\ Done(r) /\ IsGet(r) /\ resp[r] = StatusNotFound
        /\ existing_cart[r] # NoRow /\ ProductExists(existing_cart[r].product_id)
        /\ Done(s) /\ (IsRemove(s) \/ IsClear(s)) /\ resp[s] = StatusOk
        /\ existing_cart[s] = existing_cart[r]

\* C30: when two delete_cart_item requests for the same (u, p) run
\* concurrently against a single row, at most one of them reports a
\* successful delete; the other reports NotFound.
ConcurrentRemovesOneSuccess ==
    \A r \in Req : \A s \in Req :
        (/\ r < s /\ Done(r) /\ Done(s) /\ IsRemove(r) /\ IsRemove(s) /\ SamePair(r, s)
         /\ \A t \in Req \ {r, s} : pc[t] = "idle"
         /\ StatusInternalServerError \notin {resp[r], resp[s]}
         /\ StatusOk \in {resp[r], resp[s]})
        => {resp[r], resp[s]} = {StatusOk, StatusNotFound}

\* C31: for every stored q0 and every qty in 1..2^31-1, an add_to_cart merge
\* that reports success has stored the mathematical sum q0 + qty: the sum
\* did not leave the i32 range, and the row returned holds it.
MergeStoresExactSum ==
    \A r \in Req :
        (Done(r) /\ IsAdd(r) /\ resp[r] = StatusOk)
        => /\ ~AddOverflows(existing_cart[r].total_qty, req[r].total_qty)
           /\ data[r][1].total_qty = existing_cart[r].total_qty + req[r].total_qty
           /\ data[r][1].total_qty > 0

=============================================================================
